---- MODULE Spec2Model ----
(***************************************************************************)
(* Model of lib/classes/many_to_many.py: the classes Author, Magazine and  *)
(* Article, the two class-level registries Magazine._all and Article.all,  *)
(* the validating constructors, the gated setters and the derived queries. *)
(*                                                                         *)
(* A Python value is a pair <<type, payload>>.  Objects of the three       *)
(* classes Author and Magazine are <<"Author", i>> and <<"Magazine", i>>,  *)
(* where i is the object's identity: its index in the heap of its class;   *)
(* an Article is named by its index in the heap of articles.               *)
(***************************************************************************)
EXTENDS Integers, Sequences, FiniteSets, TLC

\* ------------------------------------------------------------- bounds
MaxAuthors == 2
MaxMagazines == 2
MaxArticles == 3
\* the specification that records the constructor arguments
HistoryArticles == 2
\* the specification that draws every input
ValidationAuthors == 1
ValidationArticles == 1

\* ------------------------------------------------------------- values
Str(s) == <<"str", s>>
IntVal == <<"int", 7>>
NoneVal == <<"NoneType", 0>>
AuthorRef(i) == <<"Author", i>>
MagazineRef(i) == <<"Magazine", i>>
ListVal(s) == <<"list", s>>

isinstance(v, cls) == v[1] = cls
len(v) == Len(v[2])

\* strings of the boundary lengths
S16 == "ABCDEFGHIJKLMNOP"
S17 == "ABCDEFGHIJKLMNOPQ"
T4 == "Four"
T5 == "Title"
T50 == "ABCDEFGHIJKLMNOPQRSTUVWXYZABCDEFGHIJKLMNOPQRSTUVWX"
T51 == "ABCDEFGHIJKLMNOPQRSTUVWXYZABCDEFGHIJKLMNOPQRSTUVWXY"

VARIABLES
    authors,          \* heap of Author objects: authors[i] = [name]
    magazines,        \* heap of Magazine objects: magazines[i] = [name, category]
    articles,         \* heap of Article objects: articles[i] = [title, author, magazine]
    Magazine_all,     \* Magazine._all: sequence of Magazine identities
    Article_all,      \* Article.all: sequence of Article identities
    raised,           \* TRUE iff the last call raised an exception
    init_name,        \* history: init_name[i] = the name Author i was constructed with
    init_title,       \* history: init_title[i] = the title Article i was constructed with
    init_author,      \* history: init_author[i] = the author Article i was constructed
                      \* with (recorded by SpecHistory only)
    call              \* history: the class whose constructor the last call was (or
                      \* "none") and whether its arguments were valid in the words
                      \* of the specification (recorded by SpecConstruction only)

state == <<authors, magazines, articles, Magazine_all, Article_all, raised>>
history == <<init_name, init_title, init_author, call>>
vars == <<state, history>>

AuthorIds == 1..Len(authors)
MagazineIds == 1..Len(magazines)
ArticleIds == 1..Len(articles)

\* ------------------------------------------------------------- inputs
AuthorObjects == {AuthorRef(i) : i \in AuthorIds}
MagazineObjects == {MagazineRef(i) : i \in MagazineIds}
Objects == AuthorObjects \cup MagazineObjects
AuthorNameInputs == {Str("A"), Str(""), IntVal}
AuthorNameAssigned == {Str("Ada"), Str(""), NoneVal}
MagazineNameInputs == {Str("A"), Str("AB"), Str(S16), Str(S17), IntVal}
MagazineNameAssigned == {Str("X"), Str("AB"), Str(S16), Str(S17), NoneVal}
CategoryInputs == {Str("Science"), Str(""), NoneVal}
CategoryAssigned == {Str("News"), Str(""), IntVal}
TitleInputs == {Str(T4), Str(T5), Str(T50), Str(T51), IntVal}
TitleAssigned == {Str("Other title"), Str(""), NoneVal}
ReferenceInputs == Objects \cup {NoneVal}

\* every input above
AllInputs ==
    [authorNames |-> AuthorNameInputs, authorNamesAssigned |-> AuthorNameAssigned,
     magazineNames |-> MagazineNameInputs, magazineNamesAssigned |-> MagazineNameAssigned,
     categories |-> CategoryInputs, categoriesAssigned |-> CategoryAssigned,
     titles |-> TitleInputs, titlesAssigned |-> TitleAssigned]

\* one valid and one invalid value of each string argument, for the properties
\* of the relations between the objects
FewInputs ==
    [authorNames |-> {Str("A"), Str("")}, authorNamesAssigned |-> {Str("Ada")},
     magazineNames |-> {Str("AB"), Str(S17)}, magazineNamesAssigned |-> {Str("AB"), Str("X")},
     categories |-> {Str("Science"), Str("")}, categoriesAssigned |-> {Str("Science"), IntVal},
     titles |-> {Str(T5), Str(T51)}, titlesAssigned |-> {Str("Other title")}]

Init ==
    /\ authors = <<>>
    /\ magazines = <<>>
    /\ articles = <<>>
    /\ Magazine_all = <<>>
    /\ Article_all = <<>>
    /\ raised = FALSE
    /\ init_name = <<>>
    /\ init_title = <<>>
    /\ init_author = <<>>
    /\ call = [op |-> "none", valid |-> TRUE]

\* ------------------------------------------------------------- Author
\* Author.__init__: the two checks that raise
Author_init_ok(name) ==
    /\ isinstance(name, "str")
    /\ len(name) # 0

Author_init(name) ==
    /\ IF Author_init_ok(name)
       THEN /\ authors' = Append(authors, [name |-> name])
            /\ raised' = FALSE
       ELSE /\ raised' = TRUE
            /\ UNCHANGED authors
    /\ UNCHANGED <<magazines, articles, Magazine_all, Article_all>>

\* variant: the setter assigns a valid name
Author_name_set_assigning(self, value) ==
    /\ authors' = IF isinstance(value, "str") /\ len(value) # 0
                  THEN [authors EXCEPT ![self].name = value]
                  ELSE authors
    /\ raised' = FALSE
    /\ UNCHANGED <<magazines, articles, Magazine_all, Article_all>>

\* Author.name setter: returns without assigning
Author_name_set(self, value) ==
    /\ raised' = FALSE
    /\ UNCHANGED <<authors, magazines, articles, Magazine_all, Article_all>>

\* ------------------------------------------------------------- Magazine
\* Magazine.__init__: the four checks that raise
Magazine_init_ok(name, category) ==
    /\ isinstance(name, "str")
    /\ 2 <= len(name) /\ len(name) <= 16
    /\ isinstance(category, "str")
    /\ len(category) # 0

\* variant: the setter forgets the lower bound of the length
Magazine_name_ok_no_lower(value) ==
    isinstance(value, "str") /\ len(value) <= 16

\* the condition of the Magazine.name setter
Magazine_name_ok(value) ==
    isinstance(value, "str") /\ (2 <= len(value) /\ len(value) <= 16)

\* the condition of the Magazine.category setter
Magazine_category_ok(value) ==
    isinstance(value, "str") /\ len(value) > 0

\* variant: the new magazine is inserted at the front of the registry
Magazine_register_front(all, id) == <<id>> \o all

\* variant: the constructor does not register the magazine
Magazine_register_skipped(all, id) == all

\* Magazine._all.append(self)
Magazine_register(all, id) == Append(all, id)

Magazine_init(name, category) ==
    /\ IF Magazine_init_ok(name, category)
       THEN /\ magazines' = Append(magazines, [name |-> name, category |-> category])
            /\ Magazine_all' = Magazine_register(Magazine_all, Len(magazines) + 1)
            /\ raised' = FALSE
       ELSE /\ raised' = TRUE
            /\ UNCHANGED <<magazines, Magazine_all>>
    /\ UNCHANGED <<authors, articles, Article_all>>

Magazine_name_set(self, value) ==
    /\ magazines' = IF Magazine_name_ok(value)
                    THEN [magazines EXCEPT ![self].name = value]
                    ELSE magazines
    /\ raised' = FALSE
    /\ UNCHANGED <<authors, articles, Magazine_all, Article_all>>

Magazine_category_set(self, value) ==
    /\ magazines' = IF Magazine_category_ok(value)
                    THEN [magazines EXCEPT ![self].category = value]
                    ELSE magazines
    /\ raised' = FALSE
    /\ UNCHANGED <<authors, articles, Magazine_all, Article_all>>

\* ------------------------------------------------------------- Article
\* variant: the lower title bound is exclusive
Article_init_ok_exclusive(author, magazine, title) ==
    /\ isinstance(author, "Author")
    /\ isinstance(magazine, "Magazine")
    /\ isinstance(title, "str")
    /\ 5 < len(title)
    /\ len(title) <= 50

\* Article.__init__: the four checks that raise
Article_init_ok(author, magazine, title) ==
    /\ isinstance(author, "Author")
    /\ isinstance(magazine, "Magazine")
    /\ isinstance(title, "str")
    /\ 5 <= len(title)
    /\ len(title) <= 50

\* Article.all.append(self)
Article_register(all, id) == Append(all, id)

Article_init(author, magazine, title) ==
    /\ IF Article_init_ok(author, magazine, title)
       THEN /\ articles' = Append(articles,
                   [title |-> title, author |-> author, magazine |-> magazine])
            /\ Article_all' = Article_register(Article_all, Len(articles) + 1)
            /\ raised' = FALSE
       ELSE /\ raised' = TRUE
            /\ UNCHANGED <<articles, Article_all>>
    /\ UNCHANGED <<authors, magazines, Magazine_all>>

\* Author.add_article: return Article(self, magazine, title)
Author_add_article(self, magazine, title) ==
    Article_init(AuthorRef(self), magazine, title)

\* Article.title setter: returns without assigning
Article_title_set(self, value) ==
    /\ raised' = FALSE
    /\ UNCHANGED <<authors, magazines, articles, Magazine_all, Article_all>>

Article_author_ok(value) == isinstance(value, "Author")

Article_author_set(self, value) ==
    /\ articles' = IF Article_author_ok(value)
                   THEN [articles EXCEPT ![self].author = value]
                   ELSE articles
    /\ raised' = FALSE
    /\ UNCHANGED <<authors, magazines, Magazine_all, Article_all>>

\* variant: the setter tests the value for None instead of its class
Article_magazine_ok_not_none(value) == value # NoneVal

Article_magazine_ok(value) == isinstance(value, "Magazine")

Article_magazine_set(self, value) ==
    /\ articles' = IF Article_magazine_ok(value)
                   THEN [articles EXCEPT ![self].magazine = value]
                   ELSE articles
    /\ raised' = FALSE
    /\ UNCHANGED <<authors, magazines, Magazine_all, Article_all>>

\* ------------------------------------------------------------- queries
\* variant: compares the authors' names (==) instead of their identity (is)
Author_articles_by_name(self) ==
    SelectSeq(Article_all,
              LAMBDA a : authors[articles[a].author[2]].name = authors[self].name)

\* Author.articles
Author_articles(self) ==
    SelectSeq(Article_all, LAMBDA a : articles[a].author = AuthorRef(self))

\* Magazine.articles
Magazine_articles(self) ==
    SelectSeq(Article_all, LAMBDA a : articles[a].magazine = MagazineRef(self))

InSeq(x, s) == \E i \in 1..Len(s) : s[i] = x

\* the loops "if x not in acc: acc.append(x)"
RECURSIVE Dedup(_, _)
Dedup(s, acc) ==
    IF s = <<>> THEN acc
    ELSE Dedup(Tail(s), IF InSeq(Head(s), acc) THEN acc ELSE Append(acc, Head(s)))

\* the list comprehensions and loops over a list of articles
AuthorsOf(arts) == [k \in 1..Len(arts) |-> articles[arts[k]].author]
MagazinesOf(arts) == [k \in 1..Len(arts) |-> articles[arts[k]].magazine]
TitlesOf(arts) == [k \in 1..Len(arts) |-> articles[arts[k]].title]
CategoriesOf(mags) == [k \in 1..Len(mags) |-> magazines[mags[k][2]].category]

\* Author.magazines
Author_magazines(self) ==
    Dedup(MagazinesOf(Author_articles(self)), <<>>)

\* Author.topic_areas
Author_topic_areas(self) ==
    LET mags == Author_magazines(self)
    IN IF mags = <<>> THEN NoneVal
       ELSE ListVal(Dedup(CategoriesOf(mags), <<>>))

\* Magazine.contributors
Magazine_contributors(self) ==
    Dedup(AuthorsOf(Magazine_articles(self)), <<>>)

\* Magazine.article_titles
Magazine_article_titles(self) ==
    LET arts == Magazine_articles(self)
    IN IF arts = <<>> THEN NoneVal
       ELSE ListVal(TitlesOf(arts))

\* counts[author] after the loop of Magazine.contributing_authors
Count(arts, author) ==
    Len(SelectSeq(arts, LAMBDA a : articles[a].author = author))

\* variant: the threshold is "at least 2"
Contributing_threshold_two(cnt) == cnt >= 2

Contributing_threshold(cnt) == cnt > 2

\* Magazine.contributing_authors; counts.items() iterates in first-insertion order
Magazine_contributing_authors(self) ==
    LET arts == Magazine_articles(self)
        keys == Dedup(AuthorsOf(arts), <<>>)
        result == SelectSeq(keys, LAMBDA k : Contributing_threshold(Count(arts, k)))
    IN IF arts = <<>> THEN NoneVal
       ELSE IF result # <<>> THEN ListVal(result) ELSE NoneVal

\* variant: >= lets a later magazine with the same count take the lead
Top_better_or_equal(count, best_count) == count >= best_count

Top_better(count, best_count) == count > best_count

\* variant: best is replaced but best_count is never updated
RECURSIVE top_publisher_loop_stale(_, _, _)
top_publisher_loop_stale(i, best, best_count) ==
    IF i > Len(Magazine_all) THEN best
    ELSE LET mag == Magazine_all[i]
             count == Len(Magazine_articles(mag))
         IN IF count > best_count
            THEN top_publisher_loop_stale(i + 1, MagazineRef(mag), best_count)
            ELSE top_publisher_loop_stale(i + 1, best, best_count)

\* the for loop of Magazine.top_publisher, from position i of Magazine._all
RECURSIVE top_publisher_loop(_, _, _)
top_publisher_loop(i, best, best_count) ==
    IF i > Len(Magazine_all) THEN best
    ELSE LET mag == Magazine_all[i]
             count == Len(Magazine_articles(mag))
         IN IF Top_better(count, best_count)
            THEN top_publisher_loop(i + 1, MagazineRef(mag), count)
            ELSE top_publisher_loop(i + 1, best, best_count)

\* Magazine.top_publisher
Magazine_top_publisher ==
    IF Article_all = <<>> THEN NoneVal
    ELSE top_publisher_loop(1, NoneVal, 0)

\* a call of any of the query methods: they read the state and return
Query ==
    /\ raised' = FALSE
    /\ UNCHANGED <<authors, magazines, articles, Magazine_all, Article_all>>

\* ------------------------------------------------------------- specification
\* the arguments a constructor accepts, in the words of the specification
Valid_author(name) == name[1] = "str" /\ Len(name[2]) >= 1
Valid_magazine(name, category) ==
    /\ name[1] = "str" /\ Len(name[2]) \in 2..16
    /\ category[1] = "str" /\ Len(category[2]) >= 1
Valid_article(author, magazine, title) ==
    /\ author[1] = "Author"
    /\ magazine[1] = "Magazine"
    /\ title[1] = "str" /\ Len(title[2]) \in 5..50

\* the history variables after a call; track holds "author", "call" for the
\* history variables a specification records
RecordCall(op, valid, track) ==
    call' = IF "call" \in track THEN [op |-> op, valid |-> valid] ELSE call

NoRecord(track) ==
    /\ RecordCall("none", TRUE, track)
    /\ UNCHANGED <<init_name, init_title, init_author>>

RecordAuthor(name, track) ==
    /\ RecordCall("Author", Valid_author(name), track)
    /\ init_name' = IF raised' THEN init_name ELSE Append(init_name, name)
    /\ UNCHANGED <<init_title, init_author>>

RecordMagazine(name, category, track) ==
    /\ RecordCall("Magazine", Valid_magazine(name, category), track)
    /\ UNCHANGED <<init_name, init_title, init_author>>

RecordArticle(author, magazine, title, track) ==
    /\ RecordCall("Article", Valid_article(author, magazine, title), track)
    /\ init_title' = IF raised' THEN init_title ELSE Append(init_title, title)
    /\ init_author' = IF raised' \/ "author" \notin track THEN init_author
                      ELSE Append(init_author, author)
    /\ UNCHANGED init_name

\* one call from the embedding code, its arguments drawn from the sets of in;
\* a constructor is called only while fewer than nAuthors, nMagazines,
\* nArticles objects of its class exist
Step(nAuthors, nMagazines, nArticles, in, track) ==
    \/ \E name \in in.authorNames :
          Len(authors) < nAuthors /\ Author_init(name) /\ RecordAuthor(name, track)
    \/ \E self \in AuthorIds, value \in in.authorNamesAssigned :
          Author_name_set(self, value) /\ NoRecord(track)
    \/ \E name \in in.magazineNames, category \in in.categories :
          /\ Len(magazines) < nMagazines
          /\ Magazine_init(name, category)
          /\ RecordMagazine(name, category, track)
    \/ \E self \in MagazineIds, value \in in.magazineNamesAssigned :
          Magazine_name_set(self, value) /\ NoRecord(track)
    \/ \E self \in MagazineIds, value \in in.categoriesAssigned :
          Magazine_category_set(self, value) /\ NoRecord(track)
    \/ \E author \in ReferenceInputs, magazine \in ReferenceInputs, title \in in.titles :
          /\ Len(articles) < nArticles
          /\ Article_init(author, magazine, title)
          /\ RecordArticle(author, magazine, title, track)
    \/ \E self \in AuthorIds, magazine \in ReferenceInputs, title \in in.titles :
          /\ Len(articles) < nArticles
          /\ Author_add_article(self, magazine, title)
          /\ RecordArticle(AuthorRef(self), magazine, title, track)
    \/ \E self \in ArticleIds, value \in in.titlesAssigned :
          Article_title_set(self, value) /\ NoRecord(track)
    \/ \E self \in ArticleIds, value \in ReferenceInputs :
          Article_author_set(self, value) /\ NoRecord(track)
    \/ \E self \in ArticleIds, value \in ReferenceInputs :
          Article_magazine_set(self, value) /\ NoRecord(track)
    \/ Query /\ NoRecord(track)

\* the relations between the objects
Next == Step(MaxAuthors, MaxMagazines, MaxArticles, FewInputs, {})

Spec == Init /\ [][Next]_vars

\* the same with the author of every construction recorded
NextHistory == Step(MaxAuthors, MaxMagazines, HistoryArticles, FewInputs, {"author"})

SpecHistory == Init /\ [][NextHistory]_vars

\* validation: every input, few objects
NextValidation ==
    Step(ValidationAuthors, MaxMagazines, ValidationArticles, AllInputs, {})

SpecValidation == Init /\ [][NextValidation]_vars

\* the same with the constructor calls recorded
NextConstruction ==
    Step(ValidationAuthors, MaxMagazines, ValidationArticles, AllInputs, {"call"})

SpecConstruction == Init /\ [][NextConstruction]_vars

\* ------------------------------------------------------------- properties
Range(s) == {s[i] : i \in 1..Len(s)}
IsPrefix(s, t) == Len(s) <= Len(t) /\ SubSeq(t, 1, Len(s)) = s
StrictlyIncreasing(s) == \A i, j \in 1..Len(s) : i < j => s[i] < s[j]
Registries == <<Article_all, Magazine_all>>

\* the articles constructed with Author a as their author, in creation order
\* (identities are handed out in creation order)
ConstructedWith(a) ==
    SelectSeq([i \in 1..Len(init_author) |-> i],
              LAMBDA i : init_author[i] = AuthorRef(a))

\* the number of registered articles whose magazine is Magazine m
ArticleCount(m) ==
    Cardinality({i \in Range(Article_all) : articles[i].magazine = MagazineRef(m)})

\* C1 as stated: for every Author a, a.articles() is exactly the sequence of
\* the articles constructed with a as their author, in creation order.
C1_articles_as_constructed ==
    \A a \in AuthorIds : Author_articles(a) = ConstructedWith(a)

\* C1 amended: for every Author a, a.articles() holds exactly the articles whose
\* author is a now (no other article, none missing), in creation order and
\* without duplicates; while no article's author differs from the one it was
\* constructed with, that is the sequence of the articles constructed with a.
C1_articles_current_author ==
    \A a \in AuthorIds :
        LET r == Author_articles(a)
        IN /\ \A k \in 1..Len(r) :
                 r[k] \in ArticleIds /\ articles[r[k]].author = AuthorRef(a)
           /\ \A i \in ArticleIds : articles[i].author = AuthorRef(a) => InSeq(i, r)
           /\ StrictlyIncreasing(r)
           /\ (\A i \in ArticleIds : articles[i].author = init_author[i])
                 => r = ConstructedWith(a)

\* an author holds two articles, one of them constructed with another author
C1_witness ==
    \E a \in AuthorIds, i \in ArticleIds :
        /\ articles[i].author = AuthorRef(a)
        /\ init_author[i] # AuthorRef(a)
        /\ Len(Author_articles(a)) >= 2

\* C2 as stated: top_publisher() is null when Article.all is empty; otherwise it
\* is a registered magazine with strictly more articles than every other
\* registered magazine.
C2_strictly_highest ==
    IF Article_all = <<>> THEN Magazine_top_publisher = NoneVal
    ELSE \E m \in Range(Magazine_all) :
            /\ Magazine_top_publisher = MagazineRef(m)
            /\ \A o \in Range(Magazine_all) \ {m} : ArticleCount(m) > ArticleCount(o)

\* C2 amended: top_publisher() is null when Article.all is empty; otherwise it
\* is a registered magazine with at least as many articles as every other
\* registered magazine.
C2_highest ==
    IF Article_all = <<>> THEN Magazine_top_publisher = NoneVal
    ELSE \E m \in Range(Magazine_all) :
            /\ Magazine_top_publisher = MagazineRef(m)
            /\ \A o \in Range(Magazine_all) \ {m} : ArticleCount(m) >= ArticleCount(o)

\* two registered magazines have the same positive number of articles
C2_witness ==
    \E m, o \in Range(Magazine_all) :
        m # o /\ ArticleCount(m) = ArticleCount(o) /\ ArticleCount(m) > 0

\* C3: a constructor call with invalid arguments raises and leaves Article.all
\* and Magazine._all (and every object) as they were; a call with valid
\* arguments does not raise, creates one object of its class and, for a
\* Magazine or an Article, registers it.  The calls hold names of length 1, 2,
\* 16, 17, titles of length 4, 5, 50, 51, and values of other types.
C3_construction ==
    [][ /\ ~call'.valid =>
              /\ call'.op \in {"Author", "Magazine", "Article"}
              /\ raised'
              /\ UNCHANGED <<Registries, authors, magazines, articles>>
        /\ call' = [op |-> "Author", valid |-> TRUE] =>
              /\ ~raised'
              /\ authors' = Append(authors, [name |-> init_name'[Len(init_name')]])
              /\ UNCHANGED <<Registries, magazines, articles>>
        /\ call' = [op |-> "Magazine", valid |-> TRUE] =>
              /\ ~raised'
              /\ Len(magazines') = Len(magazines) + 1
              /\ SubSeq(magazines', 1, Len(magazines)) = magazines
              /\ Magazine_all' = Append(Magazine_all, Len(magazines'))
              /\ UNCHANGED <<Article_all, authors, articles>>
        /\ call' = [op |-> "Article", valid |-> TRUE] =>
              /\ ~raised'
              /\ Len(articles') = Len(articles) + 1
              /\ SubSeq(articles', 1, Len(articles)) = articles
              /\ articles'[Len(articles')].title = init_title'[Len(init_title')]
              /\ Article_all' = Append(Article_all, Len(articles'))
              /\ UNCHANGED <<Magazine_all, authors, magazines>>
      ]_vars

\* a Magazine construction has just failed while a magazine with a name of 16
\* characters and an article with a title of 50 characters are registered
C3_witness ==
    /\ raised
    /\ call = [op |-> "Magazine", valid |-> FALSE]
    /\ \E m \in Range(Magazine_all) : magazines[m].name = Str(S16)
    /\ \E i \in Range(Article_all) : articles[i].title = Str(T50)

C4_name_valid(value) == value[1] = "str" /\ Len(value[2]) \in 2..16
C4_category_valid(value) == value[1] = "str" /\ Len(value[2]) >= 1
C4_all_valid ==
    \A m \in MagazineIds :
        C4_name_valid(magazines[m].name) /\ C4_category_valid(magazines[m].category)

\* C4: an assignment to a Magazine's name (category) stores the value iff it is
\* a string of length 2-16 (a non-empty string); otherwise the stored value
\* stays; it never raises; and every Magazine's name and category are valid in
\* every state.
C4_setters ==
    [][ /\ \A m \in MagazineIds, value \in MagazineNameAssigned :
              Magazine_name_set(m, value) =>
                  /\ ~raised'
                  /\ magazines'[m].name =
                        IF C4_name_valid(value) THEN value ELSE magazines[m].name
                  /\ magazines'[m].category = magazines[m].category
        /\ \A m \in MagazineIds, value \in CategoryAssigned :
              Magazine_category_set(m, value) =>
                  /\ ~raised'
                  /\ magazines'[m].category =
                        IF C4_category_valid(value) THEN value ELSE magazines[m].category
                  /\ magazines'[m].name = magazines[m].name
        /\ C4_all_valid'
      ]_vars

\* a magazine carries a category that only the setter hands in
C4_witness ==
    \E m \in MagazineIds :
        magazines[m].category = Str("News") /\ magazines[m].name = Str(S16)

\* C5: every registered Article references one Author object and one Magazine
\* object, never None and never a value of another type.
C5_references ==
    \A i \in Range(Article_all) :
        /\ articles[i].author \in AuthorObjects
        /\ articles[i].magazine \in MagazineObjects

\* an article's author has been reassigned and its references are objects
C5_witness ==
    /\ Len(Article_all) >= 2
    /\ \E i \in Range(Article_all) :
          /\ articles[i].author # init_author[i]
          /\ articles[i].author[1] = "Author"
          /\ articles[i].magazine[1] = "Magazine"

\* the authors with more than 2 articles in Magazine m
C6_qualifying(m) ==
    {a \in AuthorObjects :
        Cardinality({i \in Range(Article_all) :
            articles[i].magazine = MagazineRef(m) /\ articles[i].author = a}) > 2}

\* C6: m.contributing_authors() is None if no author has more than 2 articles
\* in m (in particular if m has none); otherwise it is the list of exactly the
\* authors with more than 2 articles in m, each once.
C6_contributing_authors ==
    \A m \in MagazineIds :
        LET r == Magazine_contributing_authors(m)
        IN IF C6_qualifying(m) = {}
           THEN r = NoneVal
           ELSE /\ r[1] = "list"
                /\ Range(r[2]) = C6_qualifying(m)
                /\ Len(r[2]) = Cardinality(C6_qualifying(m))

\* an author has 3 articles in a magazine and is returned
C6_witness ==
    \E m \in MagazineIds, a \in AuthorIds :
        /\ Count(Magazine_articles(m), AuthorRef(a)) = 3
        /\ Magazine_contributing_authors(m) = ListVal(<<AuthorRef(a)>>)

C7_as_constructed ==
    /\ \A a \in AuthorIds : authors[a].name = init_name[a]
    /\ \A i \in ArticleIds : articles[i].title = init_title[i]

\* C7: an assignment to author.name or article.title does not raise and leaves
\* the value; in every state an Author's name and an Article's title are the
\* values given at construction.
C7_immutable ==
    [][ /\ \A a \in AuthorIds, value \in AuthorNameAssigned :
              Author_name_set(a, value) =>
                  ~raised' /\ authors'[a].name = authors[a].name
        /\ \A i \in ArticleIds, value \in TitleAssigned :
              Article_title_set(i, value) =>
                  ~raised' /\ articles'[i].title = articles[i].title
        /\ C7_as_constructed'
      ]_vars

\* an author and an article exist after a call that did not raise
C7_witness ==
    /\ ~raised
    /\ \E a \in AuthorIds : authors[a].name = Str("A")
    /\ \E i \in ArticleIds : articles[i].title = Str(T5)

\* C8: when Article.all is not empty, top_publisher() is the earliest
\* registered magazine among those with the maximum article count (never None).
C8_earliest_of_maximum ==
    Article_all # <<>> =>
        \E k \in 1..Len(Magazine_all) :
            /\ Magazine_top_publisher = MagazineRef(Magazine_all[k])
            /\ \A j \in 1..Len(Magazine_all) :
                  ArticleCount(Magazine_all[j]) <= ArticleCount(Magazine_all[k])
            /\ \A j \in 1..(k - 1) :
                  ArticleCount(Magazine_all[j]) < ArticleCount(Magazine_all[k])

\* the first two registered magazines tie and the first one is returned
C8_witness ==
    /\ Len(Magazine_all) >= 2
    /\ ArticleCount(Magazine_all[1]) = ArticleCount(Magazine_all[2])
    /\ ArticleCount(Magazine_all[1]) >= 1
    /\ Magazine_top_publisher = MagazineRef(Magazine_all[1])

\* C9: in every step both registries are extended at the end or left alone: a
\* step that creates an Article (Magazine) appends exactly its identity to
\* Article.all (Magazine._all), and a step that creates none leaves the
\* registry unchanged.
C9_append_only ==
    [][ /\ IsPrefix(Article_all, Article_all')
        /\ IsPrefix(Magazine_all, Magazine_all')
        /\ Len(articles') \in {Len(articles), Len(articles) + 1}
        /\ Len(magazines') \in {Len(magazines), Len(magazines) + 1}
        /\ Article_all' = IF Len(articles') = Len(articles) + 1
                          THEN Append(Article_all, Len(articles'))
                          ELSE Article_all
        /\ Magazine_all' = IF Len(magazines') = Len(magazines) + 1
                           THEN Append(Magazine_all, Len(magazines'))
                           ELSE Magazine_all
        /\ raised' => UNCHANGED Registries
      ]_vars

\* both registries have grown more than once
C9_witness == Len(Article_all) >= 3 /\ Len(Magazine_all) >= 2

RECURSIVE SumArticles(_)
SumArticles(k) ==
    IF k = 0 THEN 0
    ELSE Len(Magazine_articles(Magazine_all[k])) + SumArticles(k - 1)

\* C10: the magazine of every registered Article is in Magazine._all; every
\* registered article is in m.articles() for exactly one registered m, and the
\* lengths of all m.articles() add up to the length of Article.all.
C10_partition ==
    /\ \A i \in Range(Article_all) :
          \E m \in Range(Magazine_all) : articles[i].magazine = MagazineRef(m)
    /\ \A i \in Range(Article_all) :
          Cardinality({k \in 1..Len(Magazine_all) :
              InSeq(i, Magazine_articles(Magazine_all[k]))}) = 1
    /\ SumArticles(Len(Magazine_all)) = Len(Article_all)

\* three articles are spread over two registered magazines
C10_witness ==
    /\ Len(Article_all) >= 3
    /\ \E m, o \in Range(Magazine_all) :
          m # o /\ Magazine_articles(m) # <<>> /\ Magazine_articles(o) # <<>>

====
